---- MODULE Spec2Model ----
(***************************************************************************)
(* Reminder materialization and delivery engine of chanjo-backend.         *)
(*                                                                         *)
(* Time is counted in hours since an epoch at 00:00 of day 0; the server   *)
(* clock is UTC (AWS Lambda), so Date#setDate / Date#setHours act on the    *)
(* same calendar as Date#toISOString.  An ISO timestamp is modelled by the *)
(* hour count it denotes (ISO strings of one zone order like their         *)
(* instants) and its date part ("YYYY-MM-DD") by the day number.           *)
(*                                                                         *)
(* Every request handler is one action.  The outcome of each store or      *)
(* notification call that can fail is an input of the action (failAt).     *)
(***************************************************************************)
EXTENDS Integers, Sequences, FiniteSets, TLC

VARIABLES
    now,        \* the wall clock, in hours
    schedule,   \* table vaccination_schedule: sequence of [age, vaccine]
    mothers,    \* table mothers: userId -> "ok" | "noemail" | "missing"
    babies,     \* table babies: babyId -> [present, motherUserId, dateOfBirth]
    reminders,  \* table reminders: reminderId -> item
    nextBaby,   \* number of baby ids handed out by uuidv4()
    nextUuid,   \* number of reminder ids handed out by uuidv4()
    last,       \* the most recent request: inputs, response, requests issued
    calls,      \* the notification calls of the most recent processor run
    before,     \* table reminders as the most recent failed request found it
    repeated,   \* the most recent request repeated the one before it
    retryOf,    \* the most recent request retried one that failed at its
                \* retryOf-th batch request (0: it is no such retry)
    everSent,   \* reminderIds on which a processor has ever SET sent = "true"
    notified,   \* reminder keys contained in a published notification
    resent,     \* reminder keys contained in more than one notification
    nops,       \* number of requests and runs handled so far, up to MaxOps
    subscriptions, \* confirmed email subscriptions of the topic
                   \* SNS_TOPIC_ARN: the userIds whose email is an endpoint
    administered,  \* attribute administered of table babies: babyId ->
                   \* sequence of [vaccine, date]
    parsed,        \* the most recent call of parseAgeToDays on a string:
                   \* [ageStr, value], the value in half days
    batches,       \* the most recent run of the chunk loop on a list alone:
                   \* [list, chunks], the chunks in the order they were sent
    inflight,      \* the processor invocation between its query and its
                   \* return: what it read and what it has still to do
    reads          \* the administered/mark requests between their read of
                   \* the list and their append: request -> what it read

vars == <<now, schedule, mothers, babies, reminders, nextBaby, nextUuid,
          last, calls, before, repeated, retryOf, everSent, notified, resent, nops,
          subscriptions, administered, parsed, batches,
          inflight, reads>>

----------------------------------------------------------------------------
(* Bounds of the model *)
MaxDay == 7          \* the clock runs over days 0..MaxDay
MaxOps == 5          \* requests and processor runs in one behaviour
MaxSpare == 0        \* schedule entries beyond those that fill one batch
MaxChunkOps == 2     \* requests in one behaviour of SpecChunk
MaxRetryOps == 3     \* requests in one behaviour of SpecRetry
MaxPartialOps == 3   \* requests in one behaviour of SpecPartial
MaxProcOps == 3      \* requests and runs in one behaviour of SpecProc

(* Program constants *)
BatchLimit == 25     \* splice(0, 25)
HoursPerDay == 24
WeekDays == 7
MonthDays == 30
YearDays == 365
PutHour == 14        \* PUT /api/baby/:id/birth-date: setHours(14, 0, 0, 0)
CreateHour == 11     \* POST /api/baby: setHours(11, 0, 0, 0)
RegenHour == 11      \* POST /api/reminder/:babyId: setHours(11, 0, 0, 0)
WeeklyLead == 7      \* setDate(getDate() - 7)
DailyLead == 1       \* setDate(getDate() - 1)

MotherIds == {1, 2}
(* babyIds: those of BabyIds are handed out by uuidv4() in POST /api/baby, *)
(* in order; StrayBabyId is an id no baby was created with.                *)
StrayBabyId == 0
BabyIds == {1, 2}
AllBabyIds == {StrayBabyId} \cup BabyIds
(* the birth dates of the requests, as day numbers *)
BirthDays == {0, 1}

Min(a, b) == IF a <= b THEN a ELSE b

----------------------------------------------------------------------------
(* Age expressions.  An age string is represented by what the two regular  *)
(* expressions of parseAgeToDays extract from it:                          *)
(*   form "birth"  : the string "birth"                                    *)
(*   form "single" : matches /^(\d+)\s*(\w+)$/, groups n1, unit            *)
(*   form "range"  : matches /^(\d+)[-](\d+)\s*(\w+)$/, groups n1, n2, unit*)
(*   form "other"  : matches neither                                       *)
Age(form, n1, n2, unit) == [form |-> form, n1 |-> n1, n2 |-> n2, unit |-> unit]
Birth == Age("birth", 0, 0, "")
Weeks(n) == Age("single", n, 0, "weeks")

(* the value of a product one of whose factors is not a number: it is no   *)
(* count of days, it equals nothing and it is not >= 0                     *)
NaN == -1

(* the lower-case property names a \w+ group can hold that every object    *)
(* literal inherits from Object.prototype                                  *)
Inherited == {"constructor", "__proto__"}

(* unitMap[unit] || 0: the number of an own key, the inherited function or *)
(* object (times which every number is NaN), or 0                          *)
unitMap(unit) ==
    CASE unit \in {"week", "weeks"} -> WeekDays
      [] unit \in {"month", "months"} -> MonthDays
      [] unit \in {"year", "years"} -> YearDays
      [] unit \in Inherited -> NaN
      [] OTHER -> 0

(* parseAgeToDays on what the regular expressions extract, in HALF days:   *)
(* the range branch returns ((start + end) / 2) * unitDays, which may end  *)
(* in .5; twice the value is always an integer.                            *)
parseAgeToDays(age) ==
    CASE age.form = "birth" -> 0
      [] age.form \in {"range", "single"} /\ unitMap(age.unit) = NaN -> NaN
      [] age.form = "range" -> (age.n1 + age.n2) * unitMap(age.unit)
      [] age.form = "single" -> 2 * age.n1 * unitMap(age.unit)
      [] OTHER -> 0

(* Age strings are sequences of characters. *)
DigitChars == <<"0", "1", "2", "3", "4", "5", "6", "7", "8", "9">>
Letters == <<"a", "b", "c", "d", "e", "f", "g", "h", "i", "j", "k", "l", "m",
             "n", "o", "p", "q", "r", "s", "t", "u", "v", "w", "x", "y", "z">>
Capitals == <<"A", "B", "C", "D", "E", "F", "G", "H", "I", "J", "K", "L", "M",
              "N", "O", "P", "Q", "R", "S", "T", "U", "V", "W", "X", "Y", "Z">>

(* the en dash of the range expression, U+2013 *)
EnDash == "EN DASH"

(* the character classes \d, \s, \w and the class of the two dashes *)
Digit == {DigitChars[i] : i \in 1..Len(DigitChars)}
Space == {" "}
WordChar == Digit \cup {Letters[i] : i \in 1..Len(Letters)}
                  \cup {Capitals[i] : i \in 1..Len(Capitals)} \cup {"_"}
DashChar == {"-", EnDash}

AllIn(s, from, to, class) == \A k \in from..to : s[k] \in class

(* String.prototype.trim *)
trim(s) ==
    LET solid == {i \in 1..Len(s) : s[i] \notin Space}
    IN  IF solid = {} THEN <<>>
        ELSE SubSeq(s, CHOOSE i \in solid : \A j \in solid : i <= j,
                       CHOOSE i \in solid : \A j \in solid : j <= i)

(* String.prototype.toLowerCase *)
toLowerCase(s) ==
    [i \in 1..Len(s) |->
        IF \E k \in 1..Len(Capitals) : Capitals[k] = s[i]
        THEN Letters[CHOOSE k \in 1..Len(Capitals) : Capitals[k] = s[i]]
        ELSE s[i]]

(* parseInt(digits, 10) *)
RECURSIVE parseInt(_)
parseInt(digits) ==
    IF digits = <<>> THEN 0
    ELSE 10 * parseInt(SubSeq(digits, 1, Len(digits) - 1))
           + (CHOOSE n \in 0..9 : DigitChars[n + 1] = digits[Len(digits)])

(* the characters of a group as one string *)
RECURSIVE Str(_)
Str(s) == IF s = <<>> THEN "" ELSE Head(s) \o Str(Tail(s))

(* ageStr.match(rangeRegex): the groups, or <<>> for null.  Each           *)
(* quantifier is greedy: of the ways to match, the one giving the earlier  *)
(* group the most characters.                                              *)
rangeRegex(s) ==
    LET ways == {w \in (1..Len(s)) \X (1..Len(s)) \X (1..Len(s)) :
                    /\ AllIn(s, 1, w[1], Digit)
                    /\ w[1] + 1 <= Len(s) /\ s[w[1] + 1] \in DashChar
                    /\ w[1] + 2 <= w[2] /\ AllIn(s, w[1] + 2, w[2], Digit)
                    /\ w[2] <= w[3] /\ AllIn(s, w[2] + 1, w[3], Space)
                    /\ w[3] < Len(s) /\ AllIn(s, w[3] + 1, Len(s), WordChar)}
    IN  IF ways = {} THEN <<>>
        ELSE LET w == CHOOSE x \in ways :
                        \A y \in ways : /\ y[2] <= x[2]
                                        /\ y[2] = x[2] => y[3] <= x[3]
             IN  <<SubSeq(s, 1, w[1]), SubSeq(s, w[1] + 2, w[2]),
                   SubSeq(s, w[3] + 1, Len(s))>>

(* ageStr.match(singleRegex) *)
singleRegex(s) ==
    LET ways == {w \in (1..Len(s)) \X (1..Len(s)) :
                    /\ AllIn(s, 1, w[1], Digit)
                    /\ w[1] <= w[2] /\ AllIn(s, w[1] + 1, w[2], Space)
                    /\ w[2] < Len(s) /\ AllIn(s, w[2] + 1, Len(s), WordChar)}
    IN  IF ways = {} THEN <<>>
        ELSE LET w == CHOOSE x \in ways :
                        \A y \in ways : /\ y[1] <= x[1]
                                        /\ y[1] = x[1] => y[2] <= x[2]
             IN  <<SubSeq(s, 1, w[1]), SubSeq(s, w[2] + 1, Len(s))>>

(* what parseAgeToDays extracts from its argument *)
matchAge(ageStr) ==
    LET s == toLowerCase(trim(ageStr))
        range == rangeRegex(s)
        single == singleRegex(s)
    IN  IF s = <<"b", "i", "r", "t", "h">> THEN Birth
        ELSE IF range # <<>>
        THEN Age("range", parseInt(range[1]), parseInt(range[2]),
                 Str(range[3]))
        ELSE IF single # <<>>
        THEN Age("single", parseInt(single[1]), 0, Str(single[2]))
        ELSE Age("other", 0, 0, "")

(* no call of parseAgeToDays on a string has been made yet *)
NoCall == [ageStr |-> <<>>, value |-> 0]

(* parseAgeToDays(ageStr), called on its own *)
ParseAge(ageStr) ==
    /\ parsed' = [ageStr |-> ageStr,
                  value |-> parseAgeToDays(matchAge(ageStr))]
    /\ UNCHANGED <<now, schedule, mothers, babies, reminders, nextBaby,
                   nextUuid, last, calls, before, repeated, retryOf,
                   everSent, notified, resent, nops, subscriptions,
                   administered, batches,
          inflight, reads>>

(* d.setDate(d.getDate() + daysOffset): the day argument is truncated to   *)
(* an integer (ToIntegerOrInfinity in MakeDay).  Argument in half days.    *)
setDateOffset(halfDays) == halfDays \div 2

(* vaccDate: 00:00 of the birth day plus the offset, as an hour count *)
vaccDateOf(dob, age) == (dob + setDateOffset(parseAgeToDays(age))) * HoursPerDay

(* toISOString().split("T")[0] *)
DateOf(t) == t \div HoursPerDay

----------------------------------------------------------------------------
(* Reminder identities and items *)

(* `${babyId}#${vaccine}#${type}#${scheduledDateStr}` *)
CompositeId(babyId, vaccine, type, date) ==
    [babyId |-> babyId, vaccine |-> vaccine, type |-> type, date |-> date,
     uuid |-> 0]

(* the n-th value returned by uuidv4(), n >= 1 *)
Uuid(n) == [babyId |-> 0, vaccine |-> "", type |-> "", date |-> 0, uuid |-> n]

Item(id, userId, babyId, vaccine, vacDate, at, type) ==
    [reminderId |-> id, motherId |-> userId, babyId |-> babyId,
     vaccine |-> vaccine, vaccination_date |-> vacDate, scheduled_at |-> at,
     sent |-> "false", type |-> type]

(* the (babyId, vaccine, cadence, trigger date) a reminder stands for *)
KeyOf(item) ==
    CompositeId(item.babyId, item.vaccine, item.type, DateOf(item.scheduled_at))

(* the trigger set on the day of the vaccination itself, lead not applied *)
TriggerAtNoLead(vacDate, lead, hour) ==
    DateOf(vacDate) * HoursPerDay + hour

(* d = new Date(vacDate); d.setDate(vacDate.getDate() - lead);             *)
(* d.setHours(hour, 0, 0, 0)                                               *)
TriggerAt(vacDate, lead, hour) ==
    (DateOf(vacDate) - lead) * HoursPerDay + hour

(* the loop body without its tests against the clock: a daily reminder    *)
(* for every entry, due or not                                             *)
EntryRemindersUnguarded(babyId, userId, dob, entry, t, hour) ==
    LET vacDate == vaccDateOf(dob, entry.age)
        dailyRem == TriggerAt(vacDate, DailyLead, hour)
    IN  <<Item(CompositeId(babyId, entry.vaccine, "daily", DateOf(dailyRem)),
               userId, babyId, entry.vaccine, vacDate, dailyRem, "daily")>>

(* the loop body with diffDays > 7 in place of diffDays >= 7 *)
EntryRemindersStrictWeek(babyId, userId, dob, entry, t, hour) ==
    LET vacDate == vaccDateOf(dob, entry.age)
        weeklyRem == TriggerAt(vacDate, WeeklyLead, hour)
        dailyRem == TriggerAt(vacDate, DailyLead, hour)
        weekly == IF vacDate - t > WeeklyLead * HoursPerDay /\ weeklyRem > t
                  THEN <<Item(CompositeId(babyId, entry.vaccine, "weekly",
                                          DateOf(weeklyRem)),
                              userId, babyId, entry.vaccine, vacDate,
                              weeklyRem, "weekly")>>
                  ELSE <<>>
        daily == IF dailyRem > t
                 THEN <<Item(CompositeId(babyId, entry.vaccine, "daily",
                                         DateOf(dailyRem)),
                             userId, babyId, entry.vaccine, vacDate,
                             dailyRem, "daily")>>
                 ELSE <<>>
    IN  IF vacDate <= t THEN <<>> ELSE weekly \o daily

(* One iteration of the loop over the schedule: the reminders pushed for   *)
(* one schedule entry, weekly first, with the composite reminderId.        *)
EntryReminders(babyId, userId, dob, entry, t, hour) ==
    LET vacDate == vaccDateOf(dob, entry.age)
        \* diffDays >= 7, with diffDays = (vacDate - now) / msPerDay
        weekAway == vacDate - t >= WeeklyLead * HoursPerDay
        weeklyRem == TriggerAt(vacDate, WeeklyLead, hour)
        dailyRem == TriggerAt(vacDate, DailyLead, hour)
        weekly == IF weekAway /\ weeklyRem > t
                  THEN <<Item(CompositeId(babyId, entry.vaccine, "weekly",
                                          DateOf(weeklyRem)),
                              userId, babyId, entry.vaccine, vacDate,
                              weeklyRem, "weekly")>>
                  ELSE <<>>
        daily == IF dailyRem > t
                 THEN <<Item(CompositeId(babyId, entry.vaccine, "daily",
                                         DateOf(dailyRem)),
                             userId, babyId, entry.vaccine, vacDate,
                             dailyRem, "daily")>>
                 ELSE <<>>
    IN  IF vacDate <= t THEN <<>> ELSE weekly \o daily

RECURSIVE ScheduleReminders(_, _, _, _, _, _, _)
ScheduleReminders(babyId, userId, dob, sched, t, hour, i) ==
    IF i > Len(sched) THEN <<>>
    ELSE EntryReminders(babyId, userId, dob, sched[i], t, hour)
         \o ScheduleReminders(babyId, userId, dob, sched, t, hour, i + 1)

(* PUT /api/baby/:id/birth-date, step 3: remindersToInsert *)
buildRemindersPut(babyId, userId, dob, sched, t) ==
    ScheduleReminders(babyId, userId, dob, sched, t, PutHour, 1)

(* POST /api/baby, step 5: toWrite; every item gets reminderId: uuidv4() *)
buildRemindersCreate(babyId, userId, dob, sched, t, firstUuid) ==
    LET items == ScheduleReminders(babyId, userId, dob, sched, t, CreateHour, 1)
    IN  [i \in 1..Len(items) |->
            [items[i] EXCEPT !.reminderId = Uuid(firstUuid + i)]]

(* regeneration taking reminderId: uuidv4() as creation does: the          *)
(* identifiers of one request are those of no other                        *)
buildRemindersRegenUuid(babyId, userId, dob, sched, t) ==
    buildRemindersCreate(babyId, userId, dob, sched, t, 100 * (nops + 1))

(* POST /api/reminder/:babyId, step 3: remindersToInsert *)
buildRemindersRegen(babyId, userId, dob, sched, t) ==
    ScheduleReminders(babyId, userId, dob, sched, t, RegenHour, 1)

Range(seq) == {seq[i] : i \in 1..Len(seq)}

----------------------------------------------------------------------------
(* The reminders table *)

(* the key condition written with a value no item carries *)
QueryUnsentMistyped(store, babyId) ==
    {id \in DOMAIN store :
        store[id].babyId = babyId /\ store[id].sent = "False"}

(* the query without its key condition on babyId *)
QueryUnsentAnyBaby(store, babyId) ==
    {id \in DOMAIN store : store[id].sent = "false"}

(* Query on index ByBaby: babyId = :b AND sent = "false" *)
QueryUnsent(store, babyId) ==
    {id \in DOMAIN store :
        store[id].babyId = babyId /\ store[id].sent = "false"}

(* the same query with FilterExpression scheduled_at > :now *)
QueryUnsentFuture(store, babyId, t) ==
    {id \in QueryUnsent(store, babyId) : store[id].scheduled_at > t}

(* the query without its key condition on type *)
QueryDueAnyType(store, type, t) ==
    {id \in DOMAIN store :
        /\ store[id].scheduled_at <= t
        /\ store[id].sent = "false"}

(* the query without its FilterExpression *)
QueryDueSentToo(store, type, t) ==
    {id \in DOMAIN store :
        /\ store[id].type = type
        /\ store[id].scheduled_at <= t}

(* Query on index ByScheduledAt: type = :t AND scheduled_at <= :now,       *)
(* FilterExpression sent = "false"                                         *)
QueryDue(store, type, t) ==
    {id \in DOMAIN store :
        /\ store[id].type = type
        /\ store[id].scheduled_at <= t
        /\ store[id].sent = "false"}

(* The order in which the query on ByBaby returns a set of keys.  The      *)
(* index sorts by sent, which all of them share: the store fixes some      *)
(* order, the same for the same set.                                       *)
RECURSIVE QueryOrder(_)
QueryOrder(ids) ==
    IF ids = {} THEN <<>>
    ELSE LET first == CHOOSE x \in ids : TRUE
         IN  <<first>> \o QueryOrder(ids \ {first})

(* the loop taking one item more than the limit: splice(0, 26) *)
RECURSIVE ChunksOneMore(_)
ChunksOneMore(list) ==
    IF Len(list) = 0 THEN <<>>
    ELSE LET n == Min(BatchLimit + 1, Len(list))
         IN  <<SubSeq(list, 1, n)>>
             \o ChunksOneMore(SubSeq(list, n + 1, Len(list)))

(* the loop taking a chunk and losing the item after it *)
RECURSIVE ChunksSkipping(_)
ChunksSkipping(list) ==
    IF Len(list) = 0 THEN <<>>
    ELSE LET n == Min(BatchLimit, Len(list))
         IN  <<SubSeq(list, 1, n)>>
             \o ChunksSkipping(SubSeq(list, n + 2, Len(list)))

(* while (list.length) { chunk = list.splice(0, 25); ... } *)
RECURSIVE Chunks(_)
Chunks(list) ==
    IF Len(list) = 0 THEN <<>>
    ELSE LET n == Min(BatchLimit, Len(list))
         IN  <<SubSeq(list, 1, n)>> \o Chunks(SubSeq(list, n + 1, Len(list)))

(* no processor invocation is between its query and its return *)
NoRun == [type |-> "", read |-> [id \in {} |-> 0], order |-> <<>>,
          published |-> FALSE, todo |-> <<>>]

(* the requests of administered/mark that can be in progress together *)
MarkRequests == {1, 2}

(* a request that is not in progress *)
Idle == [busy |-> FALSE, userId |-> 0, babyId |-> 0, vaccine |-> "",
         date |-> 0, existingList |-> <<>>]

NoReads == [r \in MarkRequests |-> Idle]

(* the chunk loop has not been run on a list alone *)
NoBatches == [list |-> <<>>, chunks |-> <<>>]

(* while (list.length) { const chunk = list.splice(0, 25); send(chunk) },  *)
(* every request succeeding, on a list of distinct items                   *)
ChunkLoop(list) ==
    /\ batches' = [list |-> list, chunks |-> Chunks(list)]
    /\ UNCHANGED <<now, schedule, mothers, babies, reminders, nextBaby,
                   nextUuid, last, calls, before, repeated, retryOf,
                   everSent, notified, resent, nops, subscriptions,
                   administered, parsed, inflight, reads>>

(* BatchWriteCommand of DeleteRequests *)
BatchDelete(store, keys) ==
    [id \in DOMAIN store \ Range(keys) |-> store[id]]

(* BatchWriteCommand of PutRequests *)
BatchPut(store, items) ==
    LET ids == {items[i].reminderId : i \in 1..Len(items)}
    IN  [id \in DOMAIN store \cup ids |->
            IF id \in ids
            THEN (CHOOSE it \in Range(items) : it.reminderId = id)
            ELSE store[id]]

(* the store after the first n delete requests *)
RECURSIVE DeleteChunks(_, _, _)
DeleteChunks(store, chunks, n) ==
    IF n = 0 THEN store
    ELSE BatchDelete(DeleteChunks(store, chunks, n - 1), chunks[n])

(* the store after the first n put requests *)
RECURSIVE PutChunks(_, _, _)
PutChunks(store, chunks, n) ==
    IF n = 0 THEN store
    ELSE BatchPut(PutChunks(store, chunks, n - 1), chunks[n])

----------------------------------------------------------------------------
(* Requests *)

(* What is recorded of a request: its inputs, the clock it read, the status *)
(* of its response (0: none), the sizes of the batch requests it sent to   *)
(* the reminders table, in order, and which of them failed (0: none).      *)
Request(op, userId, babyId, dob, t, status, sizes, failAt) ==
    [op |-> op, userId |-> userId, babyId |-> babyId, dob |-> dob, now |-> t,
     status |-> status, sizes |-> sizes, failAt |-> failAt]

NoRequest == Request("none", 0, 0, 0, 0, 0, <<>>, 0)

NoBaby == [present |-> FALSE, motherUserId |-> 0, dateOfBirth |-> 0]

SizesOf(chunks, n) == [i \in 1..n |-> Len(chunks[i])]

(* the handler with its two loops in the other order: the put requests    *)
(* first, then the delete requests for the keys read before them           *)
RunBatchesInsertFirst(store, delChunks, putChunks, failAt, lost) ==
    LET nDel == Len(delChunks)
        nPut == Len(putChunks)
        putDone == IF failAt = 0 \/ failAt > nPut THEN nPut ELSE failAt - 1
        delDone == IF failAt = 0 THEN nDel
                   ELSE IF failAt > nPut THEN failAt - nPut - 1 ELSE 0
        putSent == IF failAt = 0 \/ failAt > nPut THEN nPut ELSE failAt
        delSent == IF failAt = 0 THEN nDel
                   ELSE IF failAt > nPut THEN failAt - nPut ELSE 0
    IN  [store |-> DeleteChunks(PutChunks(store, putChunks, putDone),
                                delChunks, delDone),
         sizes |-> SizesOf(putChunks, putSent) \o SizesOf(delChunks, delSent)]

(* The two chunked loops of a materialization handler: first the delete    *)
(* requests, then the put requests, one BatchWriteCommand per chunk.       *)
(* failAt = 0: every request succeeds; failAt = k: the k-th request sent   *)
(* throws, which leaves both loops.  lost: the number of items of the     *)
(* last completed put request that the store returns as UnprocessedItems,  *)
(* which the handlers do not read.                                         *)
RunBatches(store, delChunks, putChunks, failAt, lost) ==
    LET nDel == Len(delChunks)
        nPut == Len(putChunks)
        delDone == IF failAt = 0 \/ failAt > nDel THEN nDel ELSE failAt - 1
        putDone == IF failAt = 0 THEN nPut
                   ELSE IF failAt > nDel THEN failAt - nDel - 1 ELSE 0
        delSent == IF failAt = 0 \/ failAt > nDel THEN nDel ELSE failAt
        putSent == IF failAt = 0 THEN nPut
                   ELSE IF failAt > nDel THEN failAt - nDel ELSE 0
        accepted == [i \in 1..nPut |->
                        IF i = putDone
                        THEN SubSeq(putChunks[i], 1,
                                    Len(putChunks[i])
                                      - Min(lost, Len(putChunks[i])))
                        ELSE putChunks[i]]
    IN  [store |-> PutChunks(DeleteChunks(store, delChunks, delDone),
                             accepted, putDone),
         sizes |-> SizesOf(delChunks, delSent) \o SizesOf(putChunks, putSent)]

(* What the client of POST /api/baby sees when the handler's promise       *)
(* rejects: the handler has no try/catch, so the router either leaves the  *)
(* request unanswered (status 0) or hands the error to the default error   *)
(* handler (status 500), depending on the Express major version.           *)
UncaughtStatus == {0, 500}

(* two requests with the same operation, user, baby, birth date and clock *)
SameInputs(r1, r2) ==
    /\ r1.op = r2.op
    /\ r1.userId = r2.userId
    /\ r1.babyId = r2.babyId
    /\ r1.dob = r2.dob
    /\ r1.now = r2.now

Succeeded(req) == req.status \in {200, 201}

RecordRun(req, published) ==
    /\ last' = req
    /\ calls' = published
    /\ before' = IF req.status >= 500 \/ req.failAt # 0
                 THEN reminders ELSE before
    /\ repeated' = (SameInputs(req, last) /\ Succeeded(req) /\ Succeeded(last))
    /\ retryOf' = IF SameInputs(req, last) /\ Succeeded(req)
                  THEN last.failAt ELSE 0
    /\ nops' = IF nops < MaxOps THEN nops + 1 ELSE nops

(* a request, which publishes nothing *)
Record(req) == RecordRun(req, <<>>)

(* PUT /api/baby/:id/birth-date *)
PutBirthDate(userId, babyId, birthDate, failAt, lost) ==
    LET deletes == QueryOrder(QueryUnsent(reminders, babyId))
        remindersToInsert ==
            buildRemindersPut(babyId, userId, birthDate, schedule, now)
        run == RunBatches(reminders, Chunks(deletes),
                          Chunks(remindersToInsert), failAt, lost)
    IN  /\ failAt <= Len(Chunks(deletes)) + Len(Chunks(remindersToInsert))
        \* UpdateCommand SET dateOfBirth: creates the item when it is absent
        /\ babies' = [babies EXCEPT ![babyId].present = TRUE,
                                    ![babyId].dateOfBirth = birthDate]
        /\ reminders' = run.store
        /\ Record(Request("put", userId, babyId, birthDate, now,
                          IF failAt = 0 THEN 200 ELSE 500, run.sizes, failAt))
        /\ UNCHANGED <<now, schedule, mothers, nextBaby, nextUuid,
                       everSent, notified, resent,
                       subscriptions, administered, parsed, batches,
          inflight, reads>>

(* POST /api/reminder/:babyId, steps 2 to 4 on the table as it is in      *)
(* store: the table they leave and the sizes of the requests they sent     *)
RegenerateRun(store, userId, babyId, dob, sched, t, failAt, lost) ==
    RunBatches(store,
               Chunks(QueryOrder(QueryUnsentFuture(store, babyId, t))),
               Chunks(buildRemindersRegen(babyId, userId, dob, sched, t)),
               failAt, lost)

(* POST /api/reminder/:babyId *)
RegenerateReminders(userId, babyId, failAt, lost) ==
    LET baby == babies[babyId]
        existing == QueryOrder(QueryUnsentFuture(reminders, babyId, now))
        remindersToInsert ==
            buildRemindersRegen(babyId, userId, baby.dateOfBirth, schedule, now)
        run == RegenerateRun(reminders, userId, babyId, baby.dateOfBirth,
                             schedule, now, failAt, lost)
        refused == IF ~baby.present THEN 404
                   ELSE IF baby.motherUserId # userId THEN 403 ELSE 0
    IN  /\ IF refused # 0
           THEN /\ failAt = 0
                /\ Record(Request("regen", userId, babyId, baby.dateOfBirth,
                                  now, refused, <<>>, 0))
                /\ UNCHANGED reminders
           ELSE /\ failAt <= Len(Chunks(existing))
                              + Len(Chunks(remindersToInsert))
                /\ reminders' = run.store
                /\ Record(Request("regen", userId, babyId, baby.dateOfBirth,
                                  now, IF failAt = 0 THEN 201 ELSE 500,
                                  run.sizes, failAt))
        /\ UNCHANGED <<now, schedule, mothers, babies, nextBaby, nextUuid,
                       everSent, notified, resent,
                       subscriptions, administered, parsed, batches,
          inflight, reads>>

(* POST /api/baby *)
CreateBaby(userId, dateOfBirth, failAt, uncaught, lost) ==
    LET babyId == nextBaby + 1
        toWrite == buildRemindersCreate(babyId, userId, dateOfBirth, schedule,
                                        now, nextUuid)
        run == RunBatches(reminders, <<>>, Chunks(toWrite), failAt, lost)
    IN  /\ IF mothers[userId] = "missing"
           THEN /\ failAt = 0
                /\ uncaught = 0
                /\ Record(Request("create", userId, 0, dateOfBirth, now, 404,
                                  <<>>, 0))
                /\ UNCHANGED <<babies, reminders, nextBaby, nextUuid>>
           ELSE /\ babyId \in BabyIds
                /\ failAt <= Len(Chunks(toWrite))
                /\ failAt = 0 => uncaught = 0
                /\ babies' = [babies EXCEPT ![babyId] =
                                [present |-> TRUE, motherUserId |-> userId,
                                 dateOfBirth |-> dateOfBirth]]
                /\ nextBaby' = babyId
                /\ nextUuid' = nextUuid + Len(toWrite)
                /\ reminders' = run.store
                /\ Record(Request("create", userId, babyId, dateOfBirth, now,
                                  IF failAt = 0 THEN 201 ELSE uncaught,
                                  run.sizes, failAt))
        /\ UNCHANGED <<now, schedule, mothers, everSent, notified, resent,
                       subscriptions, administered, parsed, batches,
          inflight, reads>>

----------------------------------------------------------------------------
(* The due-reminder processors (cron/daily.js, cron/weekly.js) *)

(* the orders in which Object.entries can list the groups: a group comes   *)
(* first when its first reminder comes first in the query result, which    *)
(* ascends in scheduled_at                                                 *)
GroupOrders(store, due) ==
    LET ms == {store[id].motherId : id \in due}
        firstAt(m) == CHOOSE t \in {store[id].scheduled_at : id \in due} :
                        /\ \E id \in due : /\ store[id].motherId = m
                                           /\ store[id].scheduled_at = t
                        /\ \A id \in due : store[id].motherId = m
                                             => t <= store[id].scheduled_at
    IN  {o \in [1..Cardinality(ms) -> ms] :
            /\ \A i, j \in 1..Cardinality(ms) : i # j => o[i] # o[j]
            /\ \A i, j \in 1..Cardinality(ms) :
                 i < j => firstAt(o[i]) <= firstAt(o[j])}

(* the due reminders in the order of the query on index ByScheduledAt:     *)
(* ascending in scheduled_at                                               *)
RECURSIVE DueOrder(_, _)
DueOrder(store, ids) ==
    IF ids = {} THEN <<>>
    ELSE LET first == CHOOSE x \in ids :
                        \A y \in ids :
                           store[x].scheduled_at <= store[y].scheduled_at
         IN  <<first>> \o DueOrder(store, ids \ {first})

(* dailyByMother[motherId] *)
GroupOf(store, due, motherId) == {id \in due : store[id].motherId = motherId}

(* the body naming the first reminder's vaccine only *)
buildPlainTextFirstOnly(store, ids) ==
    LET rs == DueOrder(store, ids)
    IN  [date |-> store[rs[1]].vaccination_date,
         vaccines |-> <<store[rs[1]].vaccine>>]

(* buildDailyPlainText / buildWeeklyPlainText: the date of the first       *)
(* reminder and one bullet per reminder, in order                          *)
buildPlainText(store, ids) ==
    LET rs == DueOrder(store, ids)
    IN  [date |-> store[rs[1]].vaccination_date,
         vaccines |-> [i \in 1..Len(rs) |-> store[rs[i]].vaccine]]

(* sns.send(new PublishCommand({ TopicArn, Message, Subject })), for the   *)
(* group of one mother; ok: the call returned                              *)
PublishCall(store, motherId, ids, ok) ==
    [motherId |-> motherId, Message |-> buildPlainText(store, ids),
     reminders |-> ids, ok |-> ok]

(* the test passing whatever the lookup returned *)
ResolvableAlways(mother) == TRUE

(* if (!mother || !mother.email) { ...; continue; } *)
Resolvable(mother) == mother = "ok"

(* the groups marked sent being those whose publish call was made,         *)
(* returned or not                                                         *)
PublishedGroupsOrFailed(order, failAt, ms) ==
    LET attempted == IF failAt = 0 THEN Len(order) ELSE failAt
    IN  {order[i] : i \in {j \in 1..attempted : Resolvable(ms[order[j]])}}

(* the groups whose publish call returned: those before the call that      *)
(* threw whose mother item exists and has an email                         *)
PublishedGroups(order, failAt, ms) ==
    LET reached == IF failAt = 0 THEN Len(order) ELSE failAt - 1
    IN  {order[i] : i \in {j \in 1..reached : Resolvable(ms[order[j]])}}

(* the value the handler returns: from the test on the length of the query *)
(* result, from the end of the try block, or from the catch block          *)
HandlerReturn(type, none, threw) ==
    LET daily == type = "daily"
    IN  IF threw
        THEN [statusCode |-> 500,
              body |-> IF daily THEN "Daily cron failure."
                                ELSE "Weekly cron failure."]
        ELSE IF none
        THEN [statusCode |-> 200,
              body |-> IF daily THEN "No daily reminders."
                                ELSE "No weekly reminders."]
        ELSE [statusCode |-> 200,
              body |-> IF daily THEN "Daily reminders processed."
                                ELSE "Weekly reminders processed."]

(* for (const rem of reminders) await ddb.send(new UpdateCommand(...)),    *)
(* the markAt-th call throwing: the reminders marked before it             *)
MarkedBefore(store, ids, markAt) ==
    {DueOrder(store, ids)[i] : i \in 1..(markAt - 1)}

(* handler: query the due reminders of one type, group them by motherId,   *)
(* and for each group look the mother up, publish one message and mark     *)
(* each reminder of the group sent.  failAt = k: a call made for the k-th  *)
(* group throws, which ends the run in the catch block; that call is the   *)
(* publish call when markAt = 0 and the markAt-th UpdateCommand of the     *)
(* group otherwise.                                                        *)
ProcessDueRun(type, order, failAt, markAt) ==
    LET due == QueryDue(reminders, type, now)
        attempted == IF failAt = 0 THEN Len(order) ELSE failAt
        published_calls ==
            SelectSeq([j \in 1..attempted |->
                          PublishCall(reminders, order[j],
                                      GroupOf(reminders, due, order[j]),
                                      j # failAt \/ markAt # 0)],
                      LAMBDA c : Resolvable(mothers[c.motherId]))
        published == PublishedGroups(order, failAt, mothers)
        partial == IF failAt # 0 /\ markAt # 0
                   THEN MarkedBefore(reminders,
                                     GroupOf(reminders, due, order[failAt]),
                                     markAt)
                   ELSE {}
        marked == {id \in due : reminders[id].motherId \in published}
                     \cup partial
        keys == {KeyOf(reminders[id]) : id \in marked}
        returned == HandlerReturn(type, due = {}, failAt # 0)
    IN  /\ order \in GroupOrders(reminders, due)
        /\ failAt \in 0..Len(order)
        /\ failAt # 0 => Resolvable(mothers[order[failAt]])
        /\ markAt # 0 =>
              /\ failAt # 0
              /\ markAt \in 1..Cardinality(GroupOf(reminders, due,
                                                   order[failAt]))
        /\ reminders' = [id \in DOMAIN reminders |->
                            IF id \in marked
                            THEN [reminders[id] EXCEPT !.sent = "true"]
                            ELSE reminders[id]]
        /\ everSent' = everSent \cup marked
        /\ notified' = notified \cup keys
        /\ resent' = resent \cup (keys \cap notified)
        /\ RecordRun(Request(type, 0, 0, 0, now, returned.statusCode, <<>>, 0)
                        @@ [body |-> returned.body],
                     published_calls)
        /\ UNCHANGED <<now, schedule, mothers, babies, nextBaby, nextUuid,
                       subscriptions, administered, parsed, batches,
          inflight, reads>>

(* a run in which no UpdateCommand throws *)
ProcessDue(type, order, failAt) == ProcessDueRun(type, order, failAt, 0)

(* cron/daily.js handler *)
ProcessDaily(order, failAt) == ProcessDue("daily", order, failAt)

(* cron/weekly.js handler *)
ProcessWeekly(order, failAt) == ProcessDue("weekly", order, failAt)

(* The instants at which the clock is read: those at which a vaccination   *)
(* date of the schedule passes or one of its reminders falls due, for some *)
(* birth date.  Every comparison of the handlers with the clock has the    *)
(* same outcome from one such instant up to the next.                      *)
Instants(sched) ==
    {t \in 0..(MaxDay * HoursPerDay + HoursPerDay - 1) :
        \E dob \in BirthDays, i \in 1..Len(sched),
           hour \in {PutHour, CreateHour, RegenHour} :
            LET vacDate == vaccDateOf(dob, sched[i].age)
            IN  t \in {vacDate, vacDate - WeeklyLead * HoursPerDay,
                       TriggerAt(vacDate, WeeklyLead, hour),
                       TriggerAt(vacDate, DailyLead, hour)}}

(* the vaccination_schedule table of the main specification *)
SmallSchedule ==
    <<[age |-> Birth, vaccine |-> "BCG"],
      [age |-> Weeks(1), vaccine |-> "OPV"]>>

Times == Instants(SmallSchedule)

(* time passes *)
Tick ==
    /\ \E t \in Times : t > now /\ now' = t
    /\ UNCHANGED <<schedule, mothers, babies, reminders, nextBaby, nextUuid,
                   last, calls, before, repeated, retryOf, everSent, notified, resent, nops,
          subscriptions, administered, parsed, batches,
          inflight, reads>>

----------------------------------------------------------------------------
EmptyStore == [id \in {} |-> 0]

InitWith(sched, motherStates) ==
    /\ now = 0
    /\ schedule = sched
    /\ mothers \in motherStates
    /\ babies = [b \in AllBabyIds |-> NoBaby]
    /\ reminders = EmptyStore
    /\ nextBaby = 0
    /\ nextUuid = 0
    /\ last = NoRequest
    /\ calls = <<>>
    /\ before = EmptyStore
    /\ repeated = FALSE
    /\ retryOf = 0
    /\ everSent = {}
    /\ notified = {}
    /\ subscriptions = {}
    /\ administered = [b \in AllBabyIds |-> <<>>]
    /\ parsed = NoCall
    /\ batches = NoBatches
    /\ inflight = NoRun
    /\ reads = NoReads
    /\ resent = {}
    /\ nops = 0

Init == InitWith(SmallSchedule, {[m \in MotherIds |-> "ok"]})

(* the authenticated user of the main specification, who adds one baby *)
Users == {1}
OneBaby == {1}
Orders == UNION {[1..n -> MotherIds] : n \in 0..Cardinality(MotherIds)}

(* Requests and processor runs one after the other, in any order, every    *)
(* store and notification call succeeding *)
Next ==
    \/ Tick
    \/ /\ nops < MaxOps
       /\ \/ \E u \in Users, d \in BirthDays :
                nextBaby + 1 \in OneBaby /\ CreateBaby(u, d, 0, 0, 0)
          \/ \E u \in Users, b \in 1..nextBaby, d \in BirthDays :
                PutBirthDate(u, b, d, 0, 0)
          \/ \E u \in Users, b \in BabyIds : RegenerateReminders(u, b, 0, 0)
          \/ \E o \in Orders : ProcessDaily(o, 0)
          \/ \E o \in Orders : ProcessWeekly(o, 0)

Spec == Init /\ [][Next]_vars

----------------------------------------------------------------------------
(* C1: once a reminder is in the store with sent = "true", no later        *)
(* request or run leaves a reminder of that reminderId with sent =         *)
(* "false": the flag only moves from false to true.                        *)
C1_SentOnlyMovesToTrue ==
    [][\A id \in DOMAIN reminders :
          (reminders[id].sent = "true" /\ id \in DOMAIN reminders')
            => reminders'[id].sent = "true"]_vars

(* C2: a reminder that has been marked sent is never deleted: every        *)
(* reminderId ever marked sent = "true" is still in the reminders table.   *)
C2_SentNeverDeleted == everSent \subseteq DOMAIN reminders

(* C3: no duplicate sends: with processor runs that do not overlap and     *)
(* never stop between dispatch and mark-sent, each (babyId, vaccine,       *)
(* cadence, trigger date) is part of at most one published notification.   *)
C3_NoDuplicateSend == resent = {}

(* C4: for each (babyId, vaccine, cadence, date of triggerAt) the          *)
(* reminders table holds at most one record.                               *)
C4_OneReminderPerKey ==
    \A id1, id2 \in DOMAIN reminders :
        KeyOf(reminders[id1]) = KeyOf(reminders[id2]) => id1 = id2

(* C6: every reminder written by creation, correction or regeneration has  *)
(* as reminderId the composite of its babyId, vaccine, cadence and the     *)
(* date of its trigger time; none has a random identifier.                 *)
C6_CompositeIdentity ==
    \A id \in DOMAIN reminders : id = KeyOf(reminders[id])

(* the baby's reminders that are unsent and not yet due at time t *)
UnsentFuture(store, babyId, t) ==
    {store[id] : id \in {k \in DOMAIN store : /\ store[k].babyId = babyId
                                               /\ store[k].sent = "false"
                                               /\ store[k].scheduled_at > t}}

(* C5: regeneration is idempotent: POST /api/reminder/:babyId or the       *)
(* birth-date correction run twice in succession with the same babyId,     *)
(* birth date, schedule and now leaves the same set of reminder            *)
(* identities as one run, the same number of records, and no two of the    *)
(* baby's pending reminders with the same key.                             *)
C5_RegenerationIdempotent ==
    [][(repeated' /\ nops' = nops + 1 /\ last'.op \in {"put", "regen"})
         => /\ DOMAIN reminders' = DOMAIN reminders
            /\ Cardinality(DOMAIN reminders') = Cardinality(DOMAIN reminders)
            /\ \A r1, r2 \in UnsentFuture(reminders', last'.babyId, last'.now) :
                   KeyOf(r1) = KeyOf(r2) => r1 = r2]_vars

(* a regeneration has just repeated the one before it and reminders of the *)
(* baby are pending *)
C5_Witness ==
    /\ repeated
    /\ last.op \in {"put", "regen"}
    /\ UnsentFuture(reminders, last.babyId, last.now) # {}

(* C7: after a successful birth-date correction the baby's unsent          *)
(* reminders with triggerAt > now are exactly the candidates projected     *)
(* from the new birth date and the schedule.                               *)
C7_CorrectionInstallsProjection ==
    (last.op = "put" /\ last.status = 200)
      => UnsentFuture(reminders, last.babyId, last.now)
           = Range(buildRemindersPut(last.babyId, last.userId, last.dob,
                                     schedule, last.now))

(* a correction to another birth date has deleted pending reminders and    *)
(* installed new ones, while a sent reminder of the old date stays         *)
C7_Witness ==
    /\ last.op = "put" /\ last.status = 200
    /\ Len(last.sizes) = 2
    /\ UnsentFuture(reminders, last.babyId, last.now) # {}
    /\ \E id \in DOMAIN reminders :
          /\ reminders[id].babyId = last.babyId
          /\ reminders[id].sent = "true"
          /\ \A i \in 1..Len(schedule) :
                reminders[id].vaccination_date
                   # vaccDateOf(last.dob, schedule[i].age)

(* C8: the delete step of a birth-date correction removes only reminders   *)
(* of the baby with sent = false and triggerAt > now: an unsent reminder   *)
(* whose trigger time has passed is left in the store unchanged.           *)
C8_CorrectionKeepsDueReminders ==
    [][(nops' = nops + 1 /\ last'.op = "put")
         => \A id \in DOMAIN reminders :
               (/\ reminders[id].babyId = last'.babyId
                /\ reminders[id].sent = "false"
                /\ reminders[id].scheduled_at <= now)
                 => (id \in DOMAIN reminders' /\ reminders'[id] = reminders[id])
      ]_vars

----------------------------------------------------------------------------
(* A schedule long enough for a baby's reminders to need more than one     *)
(* batch request: every entry is due at one week and yields a weekly and a *)
(* daily reminder.                                                         *)
VaccineNames ==
    <<"BCG", "OPV0", "OPV1", "PENTA1", "PCV1", "ROTA1", "OPV2", "PENTA2",
      "PCV2", "ROTA2", "OPV3", "PENTA3", "PCV3", "IPV", "MR1", "YF">>

BigSchedule ==
    [i \in 1..(BatchLimit \div 2 + 1 + MaxSpare) |->
        [age |-> Weeks(1), vaccine |-> VaccineNames[i]]]

InitChunk == InitWith(BigSchedule, {[m \in MotherIds |-> "ok"]})

(* the batch requests one handler can send: those of its delete loop and   *)
(* those of its insert loop                                                *)
FailPoints ==
    0..(2 * ((2 * Len(BigSchedule) + BatchLimit - 1) \div BatchLimit))

(* The materialization requests one after the other, any batch request     *)
(* to the reminders table failing or not                                   *)
NextChunk ==
    \/ Tick
    \/ /\ nops < MaxChunkOps
       /\ \/ \E u \in Users, d \in BirthDays, f \in FailPoints,
                s \in UncaughtStatus \cup {0} :
                nextBaby + 1 \in OneBaby /\ CreateBaby(u, d, f, s, 0)
          \/ \E u \in Users, b \in 1..nextBaby, d \in BirthDays,
                f \in FailPoints : PutBirthDate(u, b, d, f, 0)
          \/ \E u \in Users, b \in BabyIds, f \in FailPoints :
                RegenerateReminders(u, b, f, 0)

SpecChunk == InitChunk /\ [][NextChunk]_vars

(* C9: every batch delete or batch write request sent to the reminders     *)
(* table by creation, correction or regeneration carries at most 25        *)
(* items, however many reminders there are to delete or insert.            *)
C9_BatchesWithinLimit ==
    \A i \in 1..Len(last.sizes) : last.sizes[i] <= BatchLimit

(* a request had more than 25 reminders to delete and more than 25 to      *)
(* insert: it sent a full batch and the rest, twice                        *)
C9_Witness ==
    /\ Len(last.sizes) = 4
    /\ last.sizes[1] = BatchLimit /\ last.sizes[2] >= 1
    /\ last.sizes[3] = BatchLimit /\ last.sizes[4] >= 1

(* C10: when a chunk of a chunked delete or insert fails, no later chunk   *)
(* of that operation is sent and the request (creation, correction or      *)
(* regeneration) answers its caller with an error response, not with       *)
(* success and not with no response.                                       *)
C10_FailedChunkIsReported ==
    last.failAt # 0
      => /\ Len(last.sizes) = last.failAt
         /\ last.status >= 400

----------------------------------------------------------------------------
(* Regenerations that fail at any batch request and are run again, after   *)
(* a creation and corrections that do not fail                             *)
NextRetry ==
    \/ Tick
    \/ /\ nops < MaxRetryOps
       /\ \/ \E u \in Users, d \in BirthDays :
                nextBaby + 1 \in OneBaby /\ CreateBaby(u, d, 0, 0, 0)
          \/ \E u \in Users, b \in 1..nextBaby, d \in BirthDays :
                PutBirthDate(u, b, d, 0, 0)
          \/ \E u \in Users, b \in BabyIds, f \in FailPoints :
                RegenerateReminders(u, b, f, 0)

SpecRetry == InitChunk /\ [][NextRetry]_vars

(* C11: retrying is safe: when a regeneration has failed after any number  *)
(* of completed delete or insert chunks and the whole regeneration is run  *)
(* again with the same inputs and succeeds, the reminders are those that   *)
(* one regeneration that never failed leaves.                              *)
C11_RetryIsSafe ==
    (retryOf # 0 /\ last.op = "regen")
      => reminders = RegenerateRun(before, last.userId, last.babyId, last.dob,
                                   schedule, last.now, 0, 0).store

(* a regeneration that failed at its fourth batch request, once its two   *)
(* delete chunks and its first insert chunk were done, has been run again  *)
(* with success: it deleted the chunk inserted before the failure and      *)
(* inserted its two chunks                                                 *)
C11_Witness ==
    /\ retryOf = 4
    /\ last.op = "regen" /\ last.status = 201
    /\ last.sizes = <<BatchLimit, BatchLimit, Len(BigSchedule) * 2 - BatchLimit>>

----------------------------------------------------------------------------
(* the numbers of items of a put request that the store may leave          *)
(* unprocessed while answering the request with success                    *)
Unprocessed == {0, 1}

(* The materialization requests one after the other, no request to the     *)
(* store throwing, the store accepting all or part of a batch              *)
NextPartial ==
    \/ Tick
    \/ /\ nops < MaxPartialOps
       /\ \/ \E u \in Users, d \in BirthDays, k \in Unprocessed :
                nextBaby + 1 \in OneBaby /\ CreateBaby(u, d, 0, 0, k)
          \/ \E u \in Users, b \in 1..nextBaby, d \in BirthDays,
                k \in Unprocessed : PutBirthDate(u, b, d, 0, k)
          \/ \E u \in Users, b \in BabyIds, k \in Unprocessed :
                RegenerateReminders(u, b, 0, k)

SpecPartial == Init /\ [][NextPartial]_vars

(* the candidates that the projection of a request computes *)
CandidatesOf(req) ==
    Range(ScheduleReminders(req.babyId, req.userId, req.dob, schedule,
                            req.now,
                            CASE req.op = "put" -> PutHour
                              [] req.op = "create" -> CreateHour
                              [] OTHER -> RegenHour,
                            1))

(* a record of the table stands for the candidate *)
Materialized(store, c) ==
    \E id \in DOMAIN store :
        /\ store[id].babyId = c.babyId
        /\ store[id].vaccine = c.vaccine
        /\ store[id].type = c.type
        /\ store[id].vaccination_date = c.vaccination_date
        /\ store[id].scheduled_at = c.scheduled_at

(* C12: no lost reminders at materialization: when creation, correction    *)
(* or regeneration answers with success, every candidate its projection    *)
(* computed is a record of the reminders table, also when the store        *)
(* accepted only part of a batch request.                                  *)
C12_NoLostReminders ==
    (last.op \in {"create", "put", "regen"} /\ Succeeded(last))
      => \A c \in CandidatesOf(last) : Materialized(reminders, c)

----------------------------------------------------------------------------
(* the three materialization requests *)
Materializations == {"create", "put", "regen"}

(* the records a step has written: those of the table after it that the   *)
(* table before it did not hold as they are                                *)
WrittenBy(old, new) ==
    {new[id] : id \in {k \in DOMAIN new : k \notin DOMAIN old \/ old[k] # new[k]}}

(* C13: every reminder written by creation, correction or regeneration     *)
(* has a vaccination date strictly later than the now of that request; a   *)
(* schedule entry whose projected vaccination date is at or before now     *)
(* yields no reminder.                                                     *)
C13_OnlyFutureVaccinations ==
    [][(nops' = nops + 1 /\ last'.op \in Materializations)
         => /\ \A r \in WrittenBy(reminders, reminders') :
                  r.vaccination_date > now
            /\ \A i \in 1..Len(schedule) :
                  vaccDateOf(last'.dob, schedule[i].age) <= now
                    => \A r \in WrittenBy(reminders, reminders') :
                          r.vaccine # schedule[i].vaccine]_vars

(* a request has skipped a schedule entry whose vaccination date had       *)
(* passed and has written reminders for another entry                      *)
C13_Witness ==
    /\ last.op \in Materializations /\ Succeeded(last)
    /\ \E i \in 1..Len(schedule) :
          /\ vaccDateOf(last.dob, schedule[i].age) <= last.now
          /\ CandidatesOf(last) # {}
          /\ \A c \in CandidatesOf(last) : c.vaccine # schedule[i].vaccine
          /\ \A c \in CandidatesOf(last) : Materialized(reminders, c)

(* C14: every reminder of the table has its trigger time strictly before   *)
(* its vaccination date, and strictly after the now at which it was        *)
(* generated.                                                              *)
C14_TriggerBetweenNowAndVaccination ==
    [][/\ \A id \in DOMAIN reminders' :
             reminders'[id].scheduled_at < reminders'[id].vaccination_date
       /\ (nops' = nops + 1 /\ last'.op \in Materializations)
             => \A r \in WrittenBy(reminders, reminders') :
                   r.scheduled_at > now]_vars

(* a request made at a clock reading other than midnight has written a     *)
(* weekly and a daily reminder                                             *)
C14_Witness ==
    /\ last.op \in Materializations /\ Succeeded(last)
    /\ last.now % HoursPerDay # 0
    /\ \E c1, c2 \in CandidatesOf(last) :
          /\ c1.type = "weekly" /\ c2.type = "daily"
          /\ Materialized(reminders, c1) /\ Materialized(reminders, c2)

(* C15: weekly threshold: an entry whose vaccination date is exactly 7     *)
(* days after now gets a weekly reminder, an entry whose vaccination date  *)
(* is less than 7 days after now gets none, and every weekly reminder      *)
(* written had its vaccination date at least 7 days after now.             *)
C15_WeeklyThreshold ==
    [][(nops' = nops + 1 /\ last'.op \in Materializations /\ Succeeded(last'))
         => /\ \A i \in 1..Len(schedule) :
                  LET vd == vaccDateOf(last'.dob, schedule[i].age)
                  IN  /\ vd - now = WeeklyLead * HoursPerDay
                          => \E id \in DOMAIN reminders' :
                                /\ reminders'[id].babyId = last'.babyId
                                /\ reminders'[id].vaccine = schedule[i].vaccine
                                /\ reminders'[id].vaccination_date = vd
                                /\ reminders'[id].type = "weekly"
                      /\ vd - now < WeeklyLead * HoursPerDay
                          => \A r \in WrittenBy(reminders, reminders') :
                                ~(/\ r.vaccine = schedule[i].vaccine
                                  /\ r.vaccination_date = vd
                                  /\ r.type = "weekly")
            /\ \A r \in WrittenBy(reminders, reminders') :
                  r.type = "weekly"
                    => r.vaccination_date - now >= WeeklyLead * HoursPerDay]_vars

(* a request made exactly 7 days before a vaccination date has left a      *)
(* weekly reminder for it                                                  *)
C15_Witness ==
    /\ last.op \in Materializations /\ Succeeded(last)
    /\ \E c \in CandidatesOf(last) :
          /\ c.type = "weekly"
          /\ c.vaccination_date - last.now = WeeklyLead * HoursPerDay
          /\ Materialized(reminders, c)

(* what a candidate is apart from its identity *)
CandidateOf(item) ==
    [vaccine |-> item.vaccine, vaccinationDate |-> item.vaccination_date,
     triggerAt |-> item.scheduled_at, cadence |-> item.type]

(* C16: creation, correction and regeneration apply the same fixed         *)
(* trigger hour: for the same birth date, schedule and now they compute    *)
(* the same (vaccine, vaccinationDate, triggerAt, cadence) candidates.     *)
C16_SameTriggerHour ==
    (last.op \in Materializations /\ Succeeded(last))
      => LET put == buildRemindersPut(last.babyId, last.userId, last.dob,
                                      schedule, last.now)
             create == buildRemindersCreate(last.babyId, last.userId,
                                            last.dob, schedule, last.now, 0)
             regen == buildRemindersRegen(last.babyId, last.userId, last.dob,
                                          schedule, last.now)
         IN  /\ {CandidateOf(c) : c \in Range(put)}
                   = {CandidateOf(c) : c \in Range(regen)}
             /\ {CandidateOf(c) : c \in Range(create)}
                   = {CandidateOf(c) : c \in Range(regen)}

----------------------------------------------------------------------------
(* Processor runs over the reminders of two mothers.  The first has a      *)
(* mothers item with an email; the second has one, or one without email,   *)
(* or none, and is the one to send a birth date for a babyId that no baby  *)
(* has.  The requests that fill the table are made at the start, the runs  *)
(* at any instant; the publish call of a run may throw.                    *)
MotherStates == {"ok", "noemail", "missing"}

(* two vaccines given at the same age *)
PairSchedule ==
    <<[age |-> Weeks(1), vaccine |-> "OPV"],
      [age |-> Weeks(1), vaccine |-> "PENTA"]>>

InitProc ==
    InitWith(PairSchedule,
             {[m \in MotherIds |-> IF m = 1 THEN "ok" ELSE st] :
                 st \in MotherStates})

NextProc ==
    \/ Tick
    \/ /\ nops < MaxProcOps
       /\ \/ \E u \in MotherIds, d \in BirthDays :
                now = 0 /\ CreateBaby(u, d, 0, 0, 0)
          \/ \E u \in MotherIds \ Users, d \in BirthDays :
                now = 0 /\ PutBirthDate(u, StrayBabyId, d, 0, 0)
          \/ \E o \in Orders, f \in 0..Cardinality(MotherIds) :
                ProcessDaily(o, f)
          \/ \E o \in Orders, f \in 0..Cardinality(MotherIds) :
                ProcessWeekly(o, f)

SpecProc == InitProc /\ [][NextProc]_vars

(* the two cadences, each with its processor *)
Cadences == {"daily", "weekly"}

(* the reminders a step has marked sent *)
MarkedBy(old, new) ==
    {id \in DOMAIN old \cap DOMAIN new :
        old[id].sent = "false" /\ new[id].sent = "true"}

(* the reminders named in the notification calls of a run *)
DispatchedIn(cs) == UNION {cs[i].reminders : i \in 1..Len(cs)}

(* the reminders of a cadence that are due and unsent at t, per mother *)
DueGroup(store, cadence, t, motherId) ==
    {id \in DOMAIN store : /\ store[id].type = cadence
                           /\ store[id].scheduled_at <= t
                           /\ store[id].sent = "false"
                           /\ store[id].motherId = motherId}

(* C17: a processor run for a cadence dispatches and marks only reminders  *)
(* that, at its query, had that cadence, triggerAt <= now and sent =       *)
(* false: never one of the other cadence, one whose trigger time is still  *)
(* in the future, or one marked sent before the run started.               *)
C17_OnlyDueOfCadence ==
    [][(nops' = nops + 1 /\ last'.op \in Cadences)
         => \A id \in MarkedBy(reminders, reminders') \cup DispatchedIn(calls') :
               /\ reminders[id].type = last'.op
               /\ reminders[id].scheduled_at <= now
               /\ reminders[id].sent = "false"]_vars

(* a daily run has dispatched and marked due daily reminders and left an   *)
(* unsent due weekly reminder and an unsent daily reminder not yet due     *)
C17_Witness ==
    /\ last.op = "daily" /\ last.status = 200
    /\ DispatchedIn(calls) # {}
    /\ \A id \in DispatchedIn(calls) : reminders[id].sent = "true"
    /\ \E id \in DOMAIN reminders :
          /\ reminders[id].type = "weekly" /\ reminders[id].sent = "false"
          /\ reminders[id].scheduled_at <= last.now
          /\ Resolvable(mothers[reminders[id].motherId])
    /\ \E id \in DOMAIN reminders :
          /\ reminders[id].type = "daily" /\ reminders[id].sent = "false"
          /\ reminders[id].scheduled_at > last.now
          /\ Resolvable(mothers[reminders[id].motherId])

(* C18: grouped dispatch: in one processor run whose notification calls    *)
(* return, each recipient with a resolvable contact and due reminders      *)
(* gets exactly one notification call, whose body lists the vaccine of     *)
(* every due reminder of that recipient, and after the run every one of    *)
(* those reminders has sent = true.                                        *)
C18_GroupedDispatch ==
    [][(nops' = nops + 1 /\ last'.op \in Cadences /\ last'.status = 200)
         => \A m \in MotherIds :
               LET group == DueGroup(reminders, last'.op, now, m)
                   mine == {i \in 1..Len(calls') : calls'[i].motherId = m}
               IN  (mothers[m] = "ok" /\ group # {})
                     => /\ Cardinality(mine) = 1
                        /\ \A i \in mine :
                              /\ Len(calls'[i].Message.vaccines)
                                    = Cardinality(group)
                              /\ \A id \in group :
                                    \E k \in 1..Len(calls'[i].Message.vaccines) :
                                       calls'[i].Message.vaccines[k]
                                         = reminders[id].vaccine
                        /\ \A id \in group : reminders'[id].sent = "true"]_vars

(* a run has sent one notification that names two vaccines due on the      *)
(* same date for one recipient, and has marked both reminders              *)
C18_Witness ==
    /\ last.op \in Cadences /\ last.status = 200
    /\ \E i \in 1..Len(calls) :
          /\ Cardinality(calls[i].reminders) = 2
          /\ {calls[i].Message.vaccines[k] : k \in 1..2} = {"OPV", "PENTA"}
          /\ \A id \in calls[i].reminders :
                /\ reminders[id].sent = "true"
                /\ reminders[id].vaccination_date = calls[i].Message.date

(* C19: dispatch precedes mark-sent: a run sets sent = true on a reminder  *)
(* only when the notification call for the reminder's recipient group has  *)
(* returned in that run; when the call fails, every reminder of the group  *)
(* still has sent = false.                                                 *)
C19_DispatchBeforeMark ==
    [][(nops' = nops + 1 /\ last'.op \in Cadences)
         => /\ \A id \in MarkedBy(reminders, reminders') :
                  \E i \in 1..Len(calls') :
                     calls'[i].ok /\ id \in calls'[i].reminders
            /\ \A i \in 1..Len(calls') :
                  ~calls'[i].ok
                    => \A id \in calls'[i].reminders :
                          reminders'[id].sent = "false"]_vars

(* a run has dispatched and marked one group, and its call for the next    *)
(* group has failed                                                        *)
C19_Witness ==
    /\ last.op \in Cadences /\ last.status = 500
    /\ Len(calls) = 2
    /\ calls[1].ok /\ ~calls[2].ok
    /\ \A id \in calls[1].reminders : reminders[id].sent = "true"
    /\ \A id \in calls[2].reminders : reminders[id].sent = "false"

C21_DispatchFailureIsolated ==
    [][(/\ nops' = nops + 1 /\ last'.op \in Cadences
        /\ \E i \in 1..Len(calls') : ~calls'[i].ok)
         => /\ last'.status = 200
            /\ \A m \in MotherIds :
                  LET group == DueGroup(reminders, last'.op, now, m)
                  IN  (/\ Resolvable(mothers[m]) /\ group # {}
                       /\ \A i \in 1..Len(calls') :
                             calls'[i].motherId = m => calls'[i].ok)
                        => /\ \E i \in 1..Len(calls') :
                                 calls'[i].reminders = group
                           /\ \A id \in group :
                                 reminders'[id].sent = "true"]_vars

----------------------------------------------------------------------------
(* The processors invoked again and again, for ever.  Both mothers have an *)
(* item with an email.  The notification sink accepts every message for    *)
(* the first mother and none for the mothers of Rejected.                  *)
Rejected == MotherIds \ Users

(* the group whose publish call throws, for the groups in this order: the  *)
(* first whose message the sink does not accept (0: none)                  *)
FailureAt(order) ==
    LET refused == {j \in 1..Len(order) : order[j] \in Rejected}
    IN  IF refused = {} THEN 0
        ELSE CHOOSE j \in refused : \A k \in refused : j <= k

DailyRun == \E o \in Orders : ProcessDaily(o, FailureAt(o))

WeeklyRun == \E o \in Orders : ProcessWeekly(o, FailureAt(o))

NextLive ==
    \/ Tick
    \/ \E u \in MotherIds, d \in BirthDays :
          now = 0 /\ CreateBaby(u, d, 0, 0, 0)
    \/ DailyRun
    \/ WeeklyRun

(* the schedulers keep invoking both processors *)
SpecLive ==
    /\ Init
    /\ [][NextLive]_vars
    /\ WF_vars(DailyRun)
    /\ WF_vars(WeeklyRun)

(* a reminder of the mother is unsent and its trigger time has come *)
Pending(motherId) ==
    \E id \in DOMAIN reminders :
        /\ reminders[id].motherId = motherId
        /\ reminders[id].sent = "false"
        /\ reminders[id].scheduled_at <= now

(* C22: eventual delivery: an unsent reminder with triggerAt <= now whose  *)
(* recipient has a mother record with an email, the processor of its       *)
(* cadence being invoked again and again and the sink accepting its        *)
(* message, is eventually dispatched and marked sent.                      *)
C22_EventualDelivery ==
    \A m \in Users : Pending(m) ~> ~Pending(m)

----------------------------------------------------------------------------
(* Processor runs that end while the reminders of a group are being marked *)
MaxCrashOps == 3

InitCrash == InitWith(PairSchedule, {[m \in MotherIds |-> "ok"]})

NextCrash ==
    \/ Tick
    \/ /\ nops < MaxCrashOps
       /\ \/ \E u \in MotherIds, d \in BirthDays :
                now = 0 /\ CreateBaby(u, d, 0, 0, 0)
          \/ \E c \in Cadences, o \in Orders,
                f \in 0..Cardinality(MotherIds),
                k \in 0..Len(PairSchedule) :
                ProcessDueRun(c, o, f, k)

SpecCrash == InitCrash /\ [][NextCrash]_vars

(* the last operation was a run that ended after marking some but not all  *)
(* reminders of the group it had just published                            *)
Interrupted ==
    /\ last.op \in Cadences
    /\ last.status = 500
    /\ Len(calls) > 0
    /\ calls[Len(calls)].ok
    /\ calls[Len(calls)].reminders \cap MarkedBy(before, reminders) # {}
    /\ calls[Len(calls)].reminders \ MarkedBy(before, reminders) # {}

(* C23: crash resumption: when a run has ended after marking some but not  *)
(* all reminders of a dispatched group, the store holds the marks made     *)
(* before the end and is otherwise as before the run, and the next run of  *)
(* that cadence names none of the marked reminders in a notification: each *)
(* of its notifications names exactly the reminders of its recipient that  *)
(* are still unsent and due.                                               *)
C23_CrashResumption ==
    [][(Interrupted /\ nops' = nops + 1 /\ last'.op = last.op)
         => LET done == MarkedBy(before, reminders)
            IN  /\ DOMAIN reminders = DOMAIN before
                /\ \A id \in DOMAIN before :
                      reminders[id] =
                         IF id \in done
                         THEN [before[id] EXCEPT !.sent = "true"]
                         ELSE before[id]
                /\ \A i \in 1..Len(calls') :
                      /\ calls'[i].reminders \cap done = {}
                      /\ calls'[i].reminders =
                            DueGroup(reminders, last'.op, now,
                                     calls'[i].motherId)]_vars

(* a run has dispatched one reminder of a group alone, the other having    *)
(* been marked by the interrupted run before it                            *)
C23_Witness ==
    /\ last.op \in Cadences
    /\ last.status = 200
    /\ \E i \in 1..Len(calls) :
          \E id \in DOMAIN before, id2 \in calls[i].reminders :
             /\ id \notin calls[i].reminders
             /\ id2 \in DOMAIN before
             /\ before[id].sent = "false"
             /\ before[id2].sent = "false"
             /\ before[id].motherId = before[id2].motherId
             /\ before[id].type = before[id2].type
             /\ before[id].scheduled_at = before[id2].scheduled_at
             /\ reminders[id].sent = "true"

----------------------------------------------------------------------------
(* The notification topic and its subscriptions *)
MaxTopicOps == 3

(* POST /api/login, the password matching: the email of the mother becomes *)
(* an endpoint of the topic unless it is one already (the mother confirms  *)
(* the subscription)                                                       *)
Login(userId) ==
    /\ mothers[userId] = "ok"
    /\ subscriptions' = subscriptions \cup {userId}
    /\ UNCHANGED <<now, schedule, mothers, babies, reminders, nextBaby,
                   nextUuid, last, calls, before, repeated, retryOf,
                   everSent, notified, resent, nops, administered,
                   parsed, batches,
          inflight, reads>>

(* PublishCommand({ TopicArn, Message, Subject }): the topic delivers the  *)
(* message to each of its endpoints; the command names no other address    *)
(* and carries no message attribute a subscription could filter on         *)
Endpoints(subs) == subs

(* mothers log in, add babies with the token of their login, and the       *)
(* processors run *)
NextTopic ==
    \/ Tick
    \/ \E u \in MotherIds : Login(u)
    \/ /\ nops < MaxTopicOps
       /\ \/ \E u \in MotherIds, d \in BirthDays :
                now = 0 /\ u \in subscriptions /\ CreateBaby(u, d, 0, 0, 0)
          \/ \E o \in Orders : ProcessDaily(o, 0)
          \/ \E o \in Orders : ProcessWeekly(o, 0)

SpecTopic == Init /\ [][NextTopic]_vars

(* C24: each notification a run dispatches for a recipient group reaches   *)
(* the contact address of that recipient and of no other guardian.         *)
C24_AddressedToRecipientOnly ==
    [][(nops' = nops + 1 /\ last'.op \in Cadences)
         => \A i \in 1..Len(calls') :
               calls'[i].ok
                  => Endpoints(subscriptions) = {calls'[i].motherId}]_vars

----------------------------------------------------------------------------
(* the value returned by the run recorded in req *)
ReturnOf(req) == [statusCode |-> req.status, body |-> req.body]

(* C25: a processor run returns a dispatch report with three counts,       *)
(* recipients processed, recipients skipped for missing contact and        *)
(* reminders marked sent, which equal what the run did.                    *)
C25_DispatchReport ==
    [][(nops' = nops + 1 /\ last'.op \in Cadences /\ last'.status = 200)
         => LET report == ReturnOf(last')
                groups == {m \in MotherIds :
                              DueGroup(reminders, last'.op, now, m) # {}}
            IN  /\ {"processed", "skipped", "marked"} \subseteq DOMAIN report
                /\ report.processed =
                      Cardinality({m \in groups : Resolvable(mothers[m])})
                /\ report.skipped =
                      Cardinality({m \in groups : ~Resolvable(mothers[m])})
                /\ report.marked =
                      Cardinality(MarkedBy(reminders, reminders'))]_vars

----------------------------------------------------------------------------
(* The processors on their documented timetable: the daily job at 1400hrs  *)
(* EAT (UTC+3) every day, the weekly job at 1400hrs EAT every Monday, day  *)
(* 0 being a Monday; no store or notification call fails.                  *)
CronHour == 11

CronTimes == {d * HoursPerDay + CronHour : d \in 0..MaxDay}

Monday(t) == DateOf(t) % WeekDays = 0

(* the jobs of the instant now have run *)
DailyDone == last.op \in Cadences /\ last.now = now

WeeklyDone == last.op = "weekly" /\ last.now = now

DailyJob ==
    /\ now \in CronTimes
    /\ ~DailyDone
    /\ \E o \in Orders : ProcessDaily(o, 0)

WeeklyJob ==
    /\ now \in CronTimes
    /\ Monday(now)
    /\ last.op = "daily" /\ last.now = now
    /\ \E o \in Orders : ProcessWeekly(o, 0)

(* time passes, no further than the next instant of the timetable, and     *)
(* past such an instant only when its jobs have run                        *)
CronTick ==
    /\ now \in CronTimes => IF Monday(now) THEN WeeklyDone ELSE DailyDone
    /\ \E t \in Times \cup CronTimes :
          /\ t > now
          /\ \A c \in CronTimes : ~(now < c /\ c < t)
          /\ now' = t
    /\ UNCHANGED <<schedule, mothers, babies, reminders, nextBaby, nextUuid,
                   last, calls, before, repeated, retryOf, everSent,
                   notified, resent, nops, subscriptions, administered, parsed, batches,
          inflight, reads>>

MaxCronOps == 3

NextCron ==
    \/ CronTick
    \/ DailyJob
    \/ WeeklyJob
    \/ /\ nops < MaxCronOps
       /\ now \notin CronTimes
       /\ \/ \E u \in Users, d \in BirthDays :
                nextBaby + 1 \in OneBaby /\ CreateBaby(u, d, 0, 0, 0)
          \/ \E u \in Users, b \in 1..nextBaby, d \in BirthDays :
                PutBirthDate(u, b, d, 0, 0)
          \/ \E u \in Users, b \in 1..nextBaby :
                RegenerateReminders(u, b, 0, 0)

SpecCron == Init /\ [][NextCron]_vars

(* C26: with the daily job run once a day and the weekly job once a week   *)
(* at the documented time and no failures, every daily reminder is         *)
(* dispatched on the day before its vaccination date, every weekly         *)
(* reminder before its vaccination date and at most a week ahead of it,    *)
(* and no reminder is still unsent when its vaccination date has come,     *)
(* whichever of creation, correction and regeneration wrote the reminder.  *)
C26_DispatchedAheadOfVaccination ==
    [][/\ \A id \in MarkedBy(reminders, reminders') :
             LET r == reminders[id]
             IN  /\ r.type = "daily"
                      => DateOf(r.vaccination_date) = DateOf(now) + DailyLead
                 /\ r.type = "weekly"
                      => /\ now < r.vaccination_date
                         /\ r.vaccination_date
                               <= now + WeeklyLead * HoursPerDay
       /\ \A id \in DOMAIN reminders' :
             reminders'[id].sent = "false"
                => now' < reminders'[id].vaccination_date]_vars

----------------------------------------------------------------------------
(* The administered list of a baby *)
MaxAdminOps == 5

(* the vaccine names of the request bodies; "": the body has no vaccine *)
MarkVaccines == {"", "BCG"}

(* the date strings of the request bodies, as day numbers *)
MarkDates == {0, 1}

(* existingList.some(entry => entry.vaccine === vaccine &&                 *)
(*                            entry.date === date)                         *)
alreadyExists(existingList, vaccine, date) ==
    \E i \in 1..Len(existingList) :
        existingList[i].vaccine = vaccine /\ existingList[i].date = date

(* POST /api/baby/:babyId/administered/mark, body { vaccine, date } *)
MarkAdministered(userId, babyId, vaccine, date) ==
    LET existingList == administered[babyId]
        newEntry == [id |-> Uuid(nextUuid + 1), vaccine |-> vaccine,
                     date |-> date, markedAt |-> now, type |-> "manual"]
        status == IF vaccine = "" THEN 400
                  ELSE IF ~babies[babyId].present THEN 404
                  ELSE IF babies[babyId].motherUserId # userId THEN 403
                  ELSE IF alreadyExists(existingList, vaccine, date) THEN 200
                  ELSE 201
    IN  /\ administered' =
              IF status = 201
              THEN [administered EXCEPT ![babyId] = Append(@, newEntry)]
              ELSE administered
        /\ nextUuid' = IF status = 201 THEN nextUuid + 1 ELSE nextUuid
        /\ Record(Request("mark", userId, babyId, date, now, status, <<>>, 0)
                     @@ [vaccine |-> vaccine])
        /\ UNCHANGED <<now, schedule, mothers, babies, reminders, nextBaby,
                       everSent, notified, resent, subscriptions,
                       parsed, batches,
          inflight, reads>>

(* step 3 of administered/init: one { vaccine, date } for each entry of    *)
(* the schedule whose vaccDate is before now, in the order of the scan     *)
RECURSIVE itemsToAdd(_, _, _)
itemsToAdd(sched, dob, t) ==
    IF sched = <<>> THEN <<>>
    ELSE LET vaccDate == vaccDateOf(dob, Head(sched).age)
             rest == itemsToAdd(Tail(sched), dob, t)
         IN  IF vaccDate < t
             THEN <<[vaccine |-> Head(sched).vaccine,
                     date |-> DateOf(vaccDate)]>> \o rest
             ELSE rest

(* POST /api/baby/:babyId/administered/init *)
InitAdministered(userId, babyId) ==
    LET status == IF ~babies[babyId].present THEN 404
                  ELSE IF babies[babyId].motherUserId # userId THEN 403
                  ELSE 200
        pastVaccines == itemsToAdd(schedule, babies[babyId].dateOfBirth, now)
    IN  \* SET administered = list_append(if_not_exists(administered, []),
        \*                                :pastVaccines)
        /\ administered' =
              IF status = 200
              THEN [administered EXCEPT ![babyId] = @ \o pastVaccines]
              ELSE administered
        /\ Record(Request("init", userId, babyId, 0, now, status, <<>>, 0))
        /\ UNCHANGED <<now, schedule, mothers, babies, reminders, nextBaby,
                       nextUuid, everSent, notified, resent, subscriptions,
                       parsed, batches,
          inflight, reads>>

(* the instants of the requests after the baby was added: one on each day  *)
(* on which a vaccination at birth can have passed                         *)
AdminTimes == {vaccDateOf(d, Birth) + CreateHour : d \in BirthDays}

NextAdmin ==
    \/ Tick /\ now' \in AdminTimes
    \/ /\ nops < MaxAdminOps
       /\ \/ \E u \in Users, d \in BirthDays :
                now = 0 /\ nextBaby + 1 \in OneBaby
                        /\ CreateBaby(u, d, 0, 0, 0)
          \/ \E u \in MotherIds, b \in OneBaby :
                now # 0 /\ InitAdministered(u, b)
          \/ \E u \in MotherIds, b \in OneBaby,
                v \in MarkVaccines, d \in MarkDates :
                now # 0 /\ MarkAdministered(u, b, v, d)

SpecAdmin == Init /\ [][NextAdmin]_vars

(* the number of entries of a list with this vaccine and date *)
CountOf(list, vaccine, date) ==
    Cardinality({i \in 1..Len(list) :
                    list[i].vaccine = vaccine /\ list[i].date = date})

(* C27: markAdministered called twice in sequence for the same baby with   *)
(* the same (vaccine, date): after the second call the baby's list has     *)
(* exactly one entry with that vaccine and date, and the second call       *)
(* returns success and leaves the list as it was.                          *)
C27_MarkIdempotent ==
    [][(/\ nops' = nops + 1
        /\ last.op = "mark" /\ last'.op = "mark"
        /\ Succeeded(last) /\ Succeeded(last')
        /\ last'.babyId = last.babyId
        /\ last'.vaccine = last.vaccine
        /\ last'.dob = last.dob)
         => /\ administered' = administered
            /\ last'.status = 200
            /\ CountOf(administered'[last'.babyId],
                       last'.vaccine, last'.dob) = 1]_vars

(* C28: whatever administered/init and administered/mark calls have been   *)
(* made on a baby, no two entries of its administered list have the same   *)
(* vaccine and date.                                                       *)
C28_NoDuplicateEntries ==
    \A b \in AllBabyIds :
        \A i, j \in 1..Len(administered[b]) :
            (/\ administered[b][i].vaccine = administered[b][j].vaccine
             /\ administered[b][i].date = administered[b][j].date)
               => i = j

----------------------------------------------------------------------------
(* parseAgeToDays on age strings *)
MaxNum == 6

(* the decimal numeral of n *)
RECURSIVE Numeral(_)
Numeral(n) ==
    IF n < 10 THEN <<DigitChars[n + 1]>>
    ELSE Numeral(n \div 10) \o <<DigitChars[(n % 10) + 1]>>

(* the unit words of the age strings: the keys of unitMap and words that   *)
(* are no key of it                                                        *)
UnitWords ==
    {<<"w", "e", "e", "k">>, <<"w", "e", "e", "k", "s">>,
     <<"m", "o", "n", "t", "h">>, <<"m", "o", "n", "t", "h", "s">>,
     <<"y", "e", "a", "r">>, <<"y", "e", "a", "r", "s">>,
     <<"d", "a", "y", "s">>,
     <<"c", "o", "n", "s", "t", "r", "u", "c", "t", "o", "r">>}

Separators == {<<>>, <<" ">>}

SingleForm(n, sep, unit) == Numeral(n) \o sep \o unit

RangeForm(n1, n2, sep, unit) ==
    Numeral(n1) \o <<"-">> \o Numeral(n2) \o sep \o unit

AgeStrings ==
    {<<"b", "i", "r", "t", "h">>, <<"B", "i", "r", "t", "h", " ">>,
     <<"b", "o", "g", "u", "s">>, <<>>,
     <<" ", "6", " ", "W", "e", "e", "k", "s">>,
     <<"6", EnDash, "8", " ", "w", "e", "e", "k", "s">>,
     <<"6", " ", "w", "e", "e", "k", "s", " ", "o", "l", "d">>}
      \cup {SingleForm(n, sep, unit) :
               n \in 0..MaxNum, sep \in Separators, unit \in UnitWords}
      \cup UNION {{RangeForm(n1, n2, sep, unit) :
                     n1 \in 0..MaxNum, n2 \in 0..MaxNum} :
                  sep \in Separators, unit \in UnitWords}

(* one call on one of the age strings; the function reads and writes no    *)
(* state, so a call is the same whatever came before it                    *)
NextAge == \E ageStr \in AgeStrings : parsed = NoCall /\ ParseAge(ageStr)

SpecAge == Init /\ [][NextAge]_vars

(* the days of a unit word according to the rule: 7, 30 or 365 for week(s),*)
(* month(s), year(s), and 0 for any other word                             *)
RuleDays(unit) ==
    IF unit \in {<<"w", "e", "e", "k">>, <<"w", "e", "e", "k", "s">>}
    THEN 7
    ELSE IF unit \in {<<"m", "o", "n", "t", "h">>,
                      <<"m", "o", "n", "t", "h", "s">>}
    THEN 30
    ELSE IF unit \in {<<"y", "e", "a", "r">>, <<"y", "e", "a", "r", "s">>}
    THEN 365
    ELSE 0

(* C29: parseAgeToDays maps "birth" to 0, "<N> <unit>" to N times 7, 30 or *)
(* 365 for week(s), month(s), year(s), a range "<N1>-<N2> <unit>" to the   *)
(* average of N1 and N2 times the days of the unit, and any unrecognized   *)
(* unit or unparseable string to 0: "6 weeks" gives 42, "2-4 months" gives *)
(* 90 and "bogus" gives 0.  (parsed.value counts half days.)               *)
C29_OffsetDaysValues ==
    /\ parsed.ageStr = <<"b", "i", "r", "t", "h">> => parsed.value = 0
    /\ parsed.ageStr = <<"b", "o", "g", "u", "s">> => parsed.value = 0
    /\ parsed.ageStr = <<"6", " ", "w", "e", "e", "k", "s">>
          => parsed.value = 2 * 42
    /\ parsed.ageStr = <<"2", "-", "4", " ", "m", "o", "n", "t", "h", "s">>
          => parsed.value = 2 * 90
    /\ \A n \in 0..MaxNum, sep \in Separators, unit \in UnitWords :
          parsed.ageStr = SingleForm(n, sep, unit)
             => parsed.value = 2 * n * RuleDays(unit)
    /\ \A n1 \in 0..MaxNum, n2 \in 0..MaxNum,
          sep \in Separators, unit \in UnitWords :
          parsed.ageStr = RangeForm(n1, n2, sep, unit)
             => parsed.value = (n1 + n2) * RuleDays(unit)

(* C30: for every age string, every range form included, parseAgeToDays    *)
(* returns an integer that is at least 0: a whole number of days.          *)
C30_OffsetDaysIntegral ==
    parsed # NoCall => /\ parsed.value >= 0
                       /\ parsed.value % 2 = 0

----------------------------------------------------------------------------
(* Requests by any authenticated user on any baby id, of a baby that       *)
(* exists or not, of the user or of another *)
MaxManyOps == 3

NextMany ==
    \/ Tick /\ now' \in AdminTimes
    \/ /\ nops < MaxManyOps
       /\ \/ \E u \in MotherIds, d \in BirthDays :
                now = 0 /\ nextBaby + 1 \in BabyIds
                        /\ CreateBaby(u, d, 0, 0, 0)
          \/ \E u \in MotherIds, b \in BabyIds, d \in BirthDays :
                PutBirthDate(u, b, d, 0, 0)
          \/ \E u \in MotherIds, b \in BabyIds :
                RegenerateReminders(u, b, 0, 0)

SpecMany == Init /\ [][NextMany]_vars

(* C31: a birth-date correction or a regeneration for a babyId without a   *)
(* baby record returns a not-found error and writes nothing: no baby       *)
(* record is created and no reminder is deleted or inserted.               *)
C31_MissingBabyNotFound ==
    [][(/\ nops' = nops + 1
        /\ last'.op \in {"put", "regen"}
        /\ ~babies[last'.babyId].present)
         => /\ last'.status = 404
            /\ babies' = babies
            /\ reminders' = reminders]_vars

(* C34: in every reachable state, the motherId of every reminder is the    *)
(* motherUserId of the baby record named by its babyId, whatever creation, *)
(* correction and regeneration requests the authenticated users have made. *)
C34_RecipientIsOwner ==
    \A id \in DOMAIN reminders :
        /\ babies[reminders[id].babyId].present
        /\ reminders[id].motherId = babies[reminders[id].babyId].motherUserId

(* C36: a regeneration or a birth-date correction for one baby leaves the  *)
(* reminders of every other baby as they were: no record with another      *)
(* babyId is deleted, overwritten or inserted.                             *)
C36_OtherBabiesUntouched ==
    [][(nops' = nops + 1 /\ last'.op \in {"put", "regen"})
         => \A id \in DOMAIN reminders \cup DOMAIN reminders' :
               /\ (id \in DOMAIN reminders
                     /\ reminders[id].babyId # last'.babyId)
                    => (id \in DOMAIN reminders'
                          /\ reminders'[id] = reminders[id])
               /\ (id \in DOMAIN reminders' /\ id \notin DOMAIN reminders)
                    => reminders'[id].babyId = last'.babyId]_vars

(* a correction or regeneration has rewritten the reminders of one baby    *)
(* while another baby had reminders                                        *)
C36_Witness ==
    /\ last.op \in {"put", "regen"}
    /\ Succeeded(last)
    /\ last.sizes # <<>>
    /\ \E id \in DOMAIN reminders : reminders[id].babyId # last.babyId
    /\ \E id \in DOMAIN reminders : reminders[id].babyId = last.babyId

----------------------------------------------------------------------------
(* The chunk loop on lists of every length up to MaxLen *)
MaxLen == 120

NextLoop ==
    \E n \in 0..MaxLen : batches = NoBatches /\ ChunkLoop([i \in 1..n |-> i])

SpecLoop == Init /\ [][NextLoop]_vars

(* the items of the chunks, in the order they were sent *)
RECURSIVE Flatten(_)
Flatten(chunks) ==
    IF chunks = <<>> THEN <<>> ELSE Head(chunks) \o Flatten(Tail(chunks))

(* C32: the chunk loop ends on every finite list, each turn sending at     *)
(* least one item; with no request failing it sends ceil(n / 25) batch     *)
(* requests, and every item of the list is in exactly one of them, in the  *)
(* order of the list.                                                      *)
C32_ChunkLoop ==
    /\ \A i \in 1..Len(batches.chunks) : Len(batches.chunks[i]) >= 1
    /\ Len(batches.chunks) * BatchLimit >= Len(batches.list)
    /\ (Len(batches.chunks) - 1) * BatchLimit < Len(batches.list)
          \/ batches.list = <<>>
    /\ batches.list = <<>> => batches.chunks = <<>>
    /\ Flatten(batches.chunks) = batches.list

(* a list of two full chunks and one item more has been sent *)
C32_Witness ==
    /\ Len(batches.list) = 2 * BatchLimit + 1
    /\ Len(batches.chunks) = 3

----------------------------------------------------------------------------
(* C33: in every processor run, all reminders of one recipient group have  *)
(* the same vaccination date, so that the date of the notification, read   *)
(* from the group's first reminder, is the vaccination date of every       *)
(* vaccine it lists, also for a recipient with several babies and for      *)
(* reminders that earlier runs left unsent.                                *)
C33_GroupSharesDate ==
    [][(nops' = nops + 1 /\ last'.op \in Cadences)
         => \A i \in 1..Len(calls') :
               \A id \in calls'[i].reminders :
                  DateOf(reminders[id].vaccination_date)
                     = DateOf(calls'[i].Message.date)]_vars

----------------------------------------------------------------------------
(* Seeding and projection of one baby's schedule *)

MaxSeedOps == 3

(* the test of the projection's loop over the schedule:                    *)
(* if (vaccDate <= now) { continue; }                                      *)
Skipped(dob, entry, t) == vaccDateOf(dob, entry.age) <= t

(* one baby added, then seeded and projected at any instant of the clock *)
NextSeed ==
    \/ Tick
    \/ /\ nops < MaxSeedOps
       /\ \/ \E u \in Users, d \in BirthDays :
                nextBaby + 1 \in OneBaby /\ CreateBaby(u, d, 0, 0, 0)
          \/ \E u \in Users, b \in OneBaby : InitAdministered(u, b)
          \/ \E u \in Users, b \in OneBaby : RegenerateReminders(u, b, 0, 0)

SpecSeed == Init /\ [][NextSeed]_vars

(* the entries that a request of administered/init appended to the list *)
SeededBy(old, new) == {new[j].vaccine : j \in (Len(old) + 1)..Len(new)}

(* C35: seeding and projection partition the schedule: at the instant of   *)
(* a successful administered/init, every entry of the schedule is either   *)
(* appended to the administered list or passes the projection's test of    *)
(* the vaccination date against the same clock, also when that date is     *)
(* the instant itself.                                                     *)
C35_SeedingAndProjectionPartition ==
    [][(nops' = nops + 1 /\ last'.op = "init" /\ last'.status = 200)
         => \A i \in 1..Len(schedule) :
               LET b == last'.babyId
               IN  \/ schedule[i].vaccine
                         \in SeededBy(administered[b], administered'[b])
                   \/ ~Skipped(babies[b].dateOfBirth, schedule[i], now)]_vars

----------------------------------------------------------------------------
(* A processor invocation step by step, beside the requests of the API *)

MaxRaceOps == 3

(* the value of an attribute that an item does not have: no comparison of  *)
(* a query or a filter with it holds                                       *)
Undefined == -1

(* the item that UpdateCommand({ Key: { reminderId }, SET sent = :true })  *)
(* creates when the table has no item with this key                        *)
MarkedOnly(id) ==
    [reminderId |-> id, motherId |-> Undefined, babyId |-> Undefined,
     vaccine |-> "", vaccination_date |-> Undefined,
     scheduled_at |-> Undefined, sent |-> "true", type |-> ""]

(* ddb.send(new UpdateCommand({ TableName: "reminders",                    *)
(*   Key: { reminderId }, UpdateExpression: "SET sent = :true" }))         *)
UpdateSent(store, id) ==
    IF id \in DOMAIN store
    THEN [store EXCEPT ![id].sent = "true"]
    ELSE store @@ (id :> MarkedOnly(id))

(* handler, up to the loop over the groups: the query of the due reminders *)
(* of one type and their grouping by motherId                              *)
ProcessStart(type, order) ==
    LET due == QueryDue(reminders, type, now)
    IN  /\ inflight = NoRun
        /\ due # {}
        /\ order \in GroupOrders(reminders, due)
        /\ inflight' = [type |-> type,
                        read |-> [id \in due |-> reminders[id]],
                        order |-> order, published |-> FALSE, todo |-> <<>>]
        /\ calls' = <<>>
        /\ UNCHANGED <<now, schedule, mothers, babies, reminders, nextBaby,
                       nextUuid, last, before, repeated, retryOf, everSent,
                       notified, resent, nops, subscriptions, administered,
                       parsed, batches, reads>>

(* the head of the loop body for the next group: the lookup of the mother, *)
(* and the publish call unless she has no email                            *)
ProcessPublish ==
    LET motherId == Head(inflight.order)
        ids == GroupOf(inflight.read, DOMAIN inflight.read, motherId)
        keys == {KeyOf(inflight.read[id]) : id \in ids}
    IN  /\ inflight # NoRun
        /\ inflight.order # <<>>
        /\ ~inflight.published
        /\ IF Resolvable(mothers[motherId])
           THEN /\ calls' = Append(calls, PublishCall(inflight.read, motherId,
                                                     ids, TRUE))
                /\ notified' = notified \cup keys
                /\ resent' = resent \cup (keys \cap notified)
                /\ inflight' = [inflight EXCEPT
                                  !.published = TRUE,
                                  !.todo = DueOrder(inflight.read, ids)]
           ELSE /\ inflight' = [inflight EXCEPT !.order = Tail(@)]
                /\ UNCHANGED <<calls, notified, resent>>
        /\ UNCHANGED <<now, schedule, mothers, babies, reminders, nextBaby,
                       nextUuid, last, before, repeated, retryOf, everSent,
                       nops, subscriptions, administered, parsed, batches,
                       reads>>

(* one iteration of for (const rem of reminders): the UpdateCommand on the *)
(* next reminder of the group just published                               *)
ProcessMark ==
    /\ inflight # NoRun
    /\ inflight.published
    /\ IF inflight.todo = <<>>
       THEN /\ inflight' = [inflight EXCEPT !.order = Tail(@),
                                            !.published = FALSE]
            /\ UNCHANGED <<reminders, everSent>>
       ELSE /\ reminders' = UpdateSent(reminders, Head(inflight.todo))
            /\ everSent' = everSent \cup {Head(inflight.todo)}
            /\ inflight' = [inflight EXCEPT !.todo = Tail(@)]
    /\ UNCHANGED <<now, schedule, mothers, babies, nextBaby, nextUuid, last,
                   calls, before, repeated, retryOf, notified, resent, nops,
                   subscriptions, administered, parsed, batches, reads>>

(* the end of the try block: the handler returns *)
ProcessEnd ==
    LET returned == HandlerReturn(inflight.type, FALSE, FALSE)
    IN  /\ inflight # NoRun
        /\ inflight.order = <<>>
        /\ inflight' = NoRun
        /\ RecordRun(Request(inflight.type, 0, 0, 0, now,
                             returned.statusCode, <<>>, 0)
                        @@ [body |-> returned.body],
                     calls)
        /\ UNCHANGED <<now, schedule, mothers, babies, reminders, nextBaby,
                       nextUuid, everSent, notified, resent, subscriptions,
                       administered, parsed, batches, reads>>

(* one baby, whose reminders are regenerated and whose birth date is       *)
(* corrected while a processor invocation is under way                     *)
NextRace ==
    \/ Tick
    \/ ProcessPublish
    \/ ProcessMark
    \/ ProcessEnd
    \/ /\ nops < MaxRaceOps
       /\ \/ \E u \in Users, d \in BirthDays :
                now = 0 /\ nextBaby + 1 \in OneBaby
                        /\ CreateBaby(u, d, 0, 0, 0)
          \/ \E u \in Users, b \in OneBaby, d \in BirthDays :
                PutBirthDate(u, b, d, 0, 0)
          \/ \E u \in Users, b \in OneBaby : RegenerateReminders(u, b, 0, 0)
          \/ \E type \in Cadences, order \in Orders :
                ProcessStart(type, order)

SpecRace == Init /\ [][NextRace]_vars

----------------------------------------------------------------------------
(* Requests of administered/mark in progress together *)

MaxConcOps == 4

(* POST /api/baby/:babyId/administered/mark, steps 1 to 4: the test of the *)
(* body, the GetCommand, the tests on the item and on the list it holds.   *)
(* The request ends here unless it goes on to append.                      *)
MarkRead(r, userId, babyId, vaccine, date) ==
    LET existingList == administered[babyId]
        status == IF vaccine = "" THEN 400
                  ELSE IF ~babies[babyId].present THEN 404
                  ELSE IF babies[babyId].motherUserId # userId THEN 403
                  ELSE IF alreadyExists(existingList, vaccine, date) THEN 200
                  ELSE 201
    IN  /\ ~reads[r].busy
        /\ IF status = 201
           THEN /\ reads' = [reads EXCEPT ![r] =
                                [busy |-> TRUE, userId |-> userId,
                                 babyId |-> babyId, vaccine |-> vaccine,
                                 date |-> date,
                                 existingList |-> existingList]]
                /\ UNCHANGED <<last, calls, before, repeated, retryOf, nops>>
           ELSE /\ Record(Request("mark", userId, babyId, date, now, status,
                                  <<>>, 0) @@ [vaccine |-> vaccine])
                /\ UNCHANGED reads
        /\ UNCHANGED <<now, schedule, mothers, babies, reminders, nextBaby,
                       nextUuid, everSent, notified, resent, subscriptions,
                       administered, parsed, batches, inflight>>

(* steps 5 and 6 of the same request: the new entry, appended by           *)
(* list_append to the list as the table holds it by then                   *)
MarkAppend(r) ==
    LET req == reads[r]
        newEntry == [id |-> Uuid(nextUuid + 1), vaccine |-> req.vaccine,
                     date |-> req.date, markedAt |-> now, type |-> "manual"]
    IN  /\ req.busy
        /\ administered' = [administered EXCEPT
                               ![req.babyId] = Append(@, newEntry)]
        /\ nextUuid' = nextUuid + 1
        /\ reads' = [reads EXCEPT ![r] = Idle]
        /\ Record(Request("mark", req.userId, req.babyId, req.date, now, 201,
                          <<>>, 0) @@ [vaccine |-> req.vaccine])
        /\ UNCHANGED <<now, schedule, mothers, babies, reminders, nextBaby,
                       everSent, notified, resent, subscriptions,
                       parsed, batches, inflight>>

(* one baby, and up to two requests of administered/mark at a time *)
NextConc ==
    \/ Tick /\ now' \in AdminTimes
    \/ \E r \in MarkRequests : MarkAppend(r)
    \/ /\ nops < MaxConcOps
       /\ \/ \E u \in Users, d \in BirthDays :
                now = 0 /\ nextBaby + 1 \in OneBaby
                        /\ CreateBaby(u, d, 0, 0, 0)
          \/ \E r \in MarkRequests, u \in MotherIds, b \in OneBaby,
                v \in MarkVaccines, d \in MarkDates :
                MarkRead(r, u, b, v, d)

SpecConc == Init /\ [][NextConc]_vars

(* C38: two requests of administered/mark for the same baby, vaccine and   *)
(* date that run together leave one entry for that pair: whenever such a   *)
(* request is answered with success, in any interleaving of the reads and  *)
(* the appends, the list holds the pair exactly once.                      *)
C38_ConcurrentMarkOnce ==
    [][(nops' = nops + 1 /\ last'.op = "mark" /\ last'.status \in {200, 201})
         => CountOf(administered'[last'.babyId], last'.vaccine,
                    last'.dob) = 1]_vars

====
